---- MODULE Spec2Model ----
(***************************************************************************)
(* A model of mrpyconvert.py: the BIDS naming grammar, EntityChain,        *)
(* BidsDict, the Converter, generate_cs_command and the participant        *)
(* registry.                                                               *)
(*                                                                         *)
(* Text.  A Python str is modelled as a sequence of symbols.  Free text    *)
(* (directory names, series descriptions, entity values, numbers) is       *)
(* spelled character by character; the words of the fixed grammar (entity  *)
(* keys, datatypes, suffixes) and the literals of the source ('sub-',      *)
(* '{}') are one symbol each.  Concatenation is \o.                        *)
(*                                                                         *)
(* Exceptions.  err holds the exception the last call raised, "none" when  *)
(* it returned normally.                                                   *)
(*                                                                         *)
(* Inputs.  The dicom tree is in the sorted layout: every entry of a study *)
(* directory is a Series_<n>_<description> directory.  In Spec the rules   *)
(* are declared first and commands are generated afterwards.               *)
(***************************************************************************)
EXTENDS Integers, Sequences, FiniteSets, TLC

VARIABLES
    autorun,        \* BidsDict.autorun
    autosession,    \* BidsDict.autosession
    chain_dict,     \* BidsDict.chain_dict: insertion-ordered <<key, EntityChain>> items
    tree,           \* the directories os.walk(dicom_path) yields, with their Series* children
    all_studies,    \* Converter.all_studies
    printed,        \* what the calls so far wrote to stdout
    commands,       \* the converter commands of the last generate_commands call
    created,        \* the paths created under bidsdir (directories, dataset_description.json)
    err,            \* the exception raised by the last call
    pc,             \* "declare" while the rules are added, "generate" once commands were asked for
    part_file,      \* participants.tsv: <<>> when absent, else <<rows>> (header implied)
    json_writes,    \* how many times participants.json was written
    args,           \* the arguments of the call under study (pure-function specifications)
    ec,             \* a free-standing EntityChain: <<>> or <<object>>
    format_string,  \* <<>> or <<EntityChain.get_format_string()>>
    filename        \* <<>> or <<format_string.format(name)>>

vars == <<autorun, autosession, chain_dict, tree, all_studies, printed, commands,
          created, err, pc, part_file, json_writes, args, ec, format_string, filename>>

(***************************************************************************)
(* Bounds                                                                  *)
(***************************************************************************)
MaxChainLen == 2    \* entity chains hold at most this many keys (SpecFormat)
MaxStudies  == 2    \* study directories in the dicom tree
MaxSeries   == 2    \* Series_* directories in the dicom tree, all studies together
MaxSubjectDirs == 3 \* study directories in the dicom tree (SpecRegistry)

(***************************************************************************)
(* Sequence helpers                                                        *)
(***************************************************************************)
Range(s) == {s[i] : i \in DOMAIN s}

RECURSIVE Flatten(_)
Flatten(ss) == IF ss = <<>> THEN <<>> ELSE Head(ss) \o Flatten(Tail(ss))

Count(s, x) == Cardinality({i \in DOMAIN s : s[i] = x})

(***************************************************************************)
(* Characters                                                              *)
(***************************************************************************)
DigitChars == <<"0", "1", "2", "3", "4", "5", "6", "7", "8", "9">>

IsDigit(c) == c \in Range(DigitChars)

DigitValue(c) == (CHOOSE i \in DOMAIN DigitChars : DigitChars[i] = c) - 1

Letters == {"a", "b", "c", "d", "e", "f", "g", "h", "i", "j", "k", "l", "m",
            "n", "o", "p", "q", "r", "s", "t", "u", "v", "w", "x", "y", "z",
            "A", "B", "C", "D", "E", "F", "G", "H", "I", "J", "K", "L", "M",
            "N", "O", "P", "Q", "R", "S", "T", "U", "V", "W", "X", "Y", "Z"}

IsAlnum(c) == IsDigit(c) \/ c \in Letters

\* int(text) for a non-empty string of decimal digits.
RECURSIVE int(_)
int(digits) ==
    IF digits = <<>> THEN 0
    ELSE 10 * int(SubSeq(digits, 1, Len(digits) - 1)) + DigitValue(digits[Len(digits)])

\* str(n) for n >= 0.
RECURSIVE str(_)
str(n) == IF n < 10 THEN <<DigitChars[n + 1]>>
          ELSE str(n \div 10) \o <<DigitChars[(n % 10) + 1]>>

\* '{:02d}'.format(n): decimal, zero-padded to a width of at least two.
Format02d(n) == IF n < 10 THEN <<"0">> \o str(n) ELSE str(n)

\* A slip: the rule key has to equal the description.
startswith_exact(text, prefix) == text = prefix

\* text.startswith(prefix)
startswith(text, prefix) ==
    /\ Len(prefix) <= Len(text)
    /\ SubSeq(text, 1, Len(prefix)) = prefix

(***************************************************************************)
(* The naming grammar (module-level tables)                                *)
(***************************************************************************)
datatypes == <<"anat", "func", "dwi", "fmap", "meg", "eeg", "ieeg", "beh">>

entities == <<"ses", "task", "acq", "ce", "rec", "dir", "run", "mod", "echo",
              "recording", "proc", "space">>

suffixes ==
    [dt \in {"anat", "fmap", "dwi", "func", "perf"} |->
        CASE dt = "anat" -> <<"T1w", "T2w", "FLAIR", "T1rho", "T1map", "T2map", "T2starw",
                              "T2starmap", "PDw", "PDmap", "PDT2", "inplaneT1", "inplaneT2",
                              "angio", "defacemask">>
          [] dt = "fmap" -> <<"phasediff", "phase1", "phase2", "magnitude1", "magnitude2",
                              "magnitude", "fieldmap", "epi">>
          [] dt = "dwi"  -> <<"dwi", "bvec", "bval">>
          [] dt = "func" -> <<"bold", "cbv", "phase", "sbref", "events", "physio", "stim">>
          [] dt = "perf" -> <<"asl", "m0scan">>]

(***************************************************************************)
(* dict helpers: a dict is the sequence of its <<key, value>> items in     *)
(* insertion order; None is a value apart.                                 *)
(***************************************************************************)
None == <<<<"None", <<>>>>>>

Keys(d) == {d[i][1] : i \in DOMAIN d}

\* key in d
In(key, d) == key \in Keys(d)

\* d[key]
Get(d, key) == d[CHOOSE i \in DOMAIN d : d[i][1] = key][2]

\* d[key] = value: an existing key keeps its place, a new key goes last.
Set(d, key, value) ==
    IF In(key, d)
    THEN [i \in DOMAIN d |-> IF d[i][1] = key THEN <<key, value>> ELSE d[i]]
    ELSE Append(d, <<key, value>>)

(***************************************************************************)
(* Text used by the inputs                                                 *)
(***************************************************************************)
rest == <<"r", "e", "s", "t">>
A1   == <<"A", "1">>

(***************************************************************************)
(* class EntityChain                                                       *)
(***************************************************************************)
\* The exception EntityChain.__init__ raises, "none" when it returns.
EntityChainError(datatype, suffix, nonstandard) ==
    IF nonstandard THEN "none"
    ELSE IF datatype \notin Range(datatypes) THEN "ValueError"
    ELSE IF datatype \notin DOMAIN suffixes THEN "KeyError"
    ELSE IF suffix \notin Range(suffixes[datatype]) THEN "ValueError"
    ELSE "none"

\* The object EntityChain.__init__ leaves when it returns.
EntityChain(datatype, suffix, chain) ==
    [datatype |-> datatype, suffix |-> suffix, chain |-> chain]

\* The loop of get_format_string over the keys ks: '{}-{}_' for each key of the chain.
RECURSIVE EntitySegments(_, _)
EntitySegments(chain, ks) ==
    IF ks = <<>> THEN <<>>
    ELSE (IF In(Head(ks), chain)
          THEN <<Head(ks), "-">> \o Get(chain, Head(ks)) \o <<"_">>
          ELSE <<>>) \o EntitySegments(chain, Tail(ks))

\* A slip: the keys are listed in the chain's insertion order.
get_format_string_insertion(self) ==
    <<"sub-", "{}", "_">>
        \o (IF self.chain # None /\ self.chain # <<>>
            THEN EntitySegments(self.chain, [i \in DOMAIN self.chain |-> self.chain[i][1]])
            ELSE <<>>)
        \o <<self.suffix>>

\* EntityChain.get_format_string
get_format_string(self) ==
    <<"sub-", "{}", "_">>
        \o (IF self.chain # None /\ self.chain # <<>>
            THEN EntitySegments(self.chain, entities)
            ELSE <<>>)
        \o <<self.suffix>>

\* text.format(name) with one positional argument: the exception it raises.
FormatError(text) == IF Count(text, "{}") > 1 THEN "IndexError" ELSE "none"

\* text.format(name) with one positional argument: '{}' is replaced by the argument.
Format(text, name) ==
    Flatten([i \in DOMAIN text |-> IF text[i] = "{}" THEN name ELSE <<text[i]>>])

(***************************************************************************)
(* class BidsDict                                                          *)
(***************************************************************************)
\* BidsDict.add on the dict cd of a BidsDict whose autorun is run: the dict and the
\* exception it leaves.  The rule is stored before chain['run'] is assigned.
AddResult(cd, series_description, datatype, suffix, chain, nonstandard, run) ==
    LET e == EntityChainError(datatype, suffix, nonstandard) IN
    IF e # "none" THEN [chain_dict |-> cd, err |-> e]
    ELSE LET stored == Set(cd, series_description, EntityChain(datatype, suffix, chain)) IN
         IF ~run THEN [chain_dict |-> stored, err |-> "none"]
         ELSE IF chain = None THEN [chain_dict |-> stored, err |-> "TypeError"]
         ELSE [chain_dict |-> Set(cd, series_description,
                                  EntityChain(datatype, suffix, Set(chain, "run", <<"{}">>))),
               err |-> "none"]

(***************************************************************************)
(* Directory names                                                         *)
(***************************************************************************)
\* Whether name[i..] starts with '_' and eight digits.
DateAt(name, i) ==
    /\ i + 8 <= Len(name)
    /\ name[i] = "_"
    /\ \A k \in 1..8 : IsDigit(name[i + k])

\* subject_pattern = '(.*)_([0-9]{8})(.*)': <<>> when it does not match, else
\* <<groups>>; the greedy first group ends at the last '_' eight digits follow.
subject_pattern(name) ==
    LET at == {i \in DOMAIN name : DateAt(name, i)} IN
    IF at = {} THEN <<>>
    ELSE LET i == CHOOSE j \in at : \A k \in at : k <= j IN
         <<[subject |-> SubSeq(name, 1, i - 1),
            date    |-> SubSeq(name, i + 1, i + 8),
            rest    |-> SubSeq(name, i + 9, Len(name))]>>

Series_ == <<"S", "e", "r", "i", "e", "s", "_">>

\* The end of the digits that start at name[i].
RECURSIVE DigitsEnd(_, _)
DigitsEnd(name, i) ==
    IF i <= Len(name) /\ IsDigit(name[i]) THEN DigitsEnd(name, i + 1) ELSE i

\* Whether name[i..] starts with 'Series_', digits and '_'.
SeriesAt(name, i) ==
    /\ i + 6 <= Len(name)
    /\ SubSeq(name, i, i + 6) = Series_
    /\ LET j == DigitsEnd(name, i + 7) IN j <= Len(name) /\ name[j] = "_"

\* series_pattern = '.*Series_([0-9]*)_(.*)': <<>> when it does not match, else
\* <<groups>>; the greedy '.*' takes the last place that matches.
series_pattern(name) ==
    LET at == {i \in DOMAIN name : SeriesAt(name, i)} IN
    IF at = {} THEN <<>>
    ELSE LET i == CHOOSE j \in at : \A k \in at : k <= j
             e == DigitsEnd(name, i + 7)
         IN  <<[run  |-> SubSeq(name, i + 7, e - 1),
                name |-> SubSeq(name, e + 1, Len(name))]>>

\* re.sub('[^0-9a-zA-Z]+', '', name)
Sanitize(name) == SelectSeq(name, IsAlnum)

\* get_subject_name: str(None) spelled out when the directory is no study directory.
get_subject_name(directory) ==
    LET m == subject_pattern(directory) IN
    IF m = <<>> THEN <<"N", "o", "n", "e">> ELSE Sanitize(m[1].subject)

(***************************************************************************)
(* generate_cs_command                                                     *)
(***************************************************************************)
\* A slip: the matching keys are taken last declared first.
dict_match_reversed(cd, series_name) ==
    LET keys == [i \in DOMAIN cd |-> cd[Len(cd) + 1 - i][1]] IN
    SelectSeq(keys, LAMBDA x : startswith(series_name, x))

\* [x for x in bids_dict.chain_dict if series_name.startswith(x)]
dict_match(cd, series_name) ==
    LET keys == [i \in DOMAIN cd |-> cd[i][1]] IN
    SelectSeq(keys, LAMBDA x : startswith(series_name, x))

\* A slip: the session directory is left out.
output_dir_flat(name, echain) == <<<<"sub-">> \o name, <<echain.datatype>>>>

\* The output directory under bidsdir, as path segments.
output_dir(name, echain) ==
    IF In("ses", echain.chain)
    THEN <<<<"sub-">> \o name, <<"ses-">> \o Get(echain.chain, "ses"), <<echain.datatype>>>>
    ELSE <<<<"sub-">> \o name, <<echain.datatype>>>>

\* The post-processing steps appended after the dcm2niix line.
PostSteps(echain) ==
    (IF In("task", echain.chain) THEN <<<<"TaskName">> \o Get(echain.chain, "task")>> ELSE <<>>)
        \o (IF echain.datatype = "dwi" THEN <<<<"fix_dwi_files">>>> ELSE <<>>)

\* The message printed when several rule keys match.
MultipleMatches(series_name) == <<"multiple matches", 0, series_name, <<>>, {}>>

\* One pass of the loop body over the directory series of subjectdir; acc holds the
\* dict, the command so far, the lines printed, the directories made and the
\* exception raised.
CsStep(acc, subjectdir, name, series) ==
    LET m           == series_pattern(series)
        run         == m[1].run
        series_name == m[1].name
        matches     == dict_match(acc.chain_dict, series_name)
        echain      == Get(acc.chain_dict, matches[1])
        said        == IF Len(matches) > 1
                       THEN acc.printed \cup {MultipleMatches(series_name)}
                       ELSE acc.printed
        resolved    == [echain EXCEPT !.chain = Set(echain.chain, "run", Format02d(int(run)))]
        mutated     == Set(acc.chain_dict, matches[1], resolved)
        template    == get_format_string(resolved)
        dir         == output_dir(name, echain)
    IN  IF m = <<>> THEN [acc EXCEPT !.err = "AttributeError"]
        ELSE IF matches = <<>> THEN acc
        ELSE IF echain.chain = None THEN [acc EXCEPT !.printed = said, !.err = "TypeError"]
        ELSE IF run = <<>> THEN [acc EXCEPT !.printed = said, !.err = "ValueError"]
        ELSE IF FormatError(template) # "none"
             THEN [acc EXCEPT !.printed = said, !.chain_dict = mutated,
                              !.err = FormatError(template)]
        ELSE [chain_dict |-> mutated,
              command    |-> Append(acc.command,
                                    [output_dir    |-> dir,
                                     format_string |-> Format(template, name),
                                     source        |-> <<subjectdir, series>>,
                                     post          |-> PostSteps(resolved)]),
              printed    |-> said,
              created  |-> acc.created \cup {dir},
              err        |-> "none"]

RECURSIVE CsLoop(_, _, _, _)
CsLoop(acc, subjectdir, name, series_dirs) ==
    IF series_dirs = <<>> \/ acc.err # "none" THEN acc
    ELSE CsLoop(CsStep(acc, subjectdir, name, Head(series_dirs)),
                subjectdir, name, Tail(series_dirs))

\* generate_cs_command(subjectdir, bidsdir, bids_dict) for the directory d of the tree,
\* starting from acc with an empty command.
generate_cs_command(acc, d) ==
    CsLoop([acc EXCEPT !.command = <<>>], d.name, get_subject_name(d.name), d.series)

(***************************************************************************)
(* class Converter                                                         *)
(***************************************************************************)
\* The directories of the tree whose name matches subject_pattern.
study_dirs(t) == SelectSeq(t, LAMBDA d : subject_pattern(d.name) # <<>>)

\* Study(sd, subject, date, series)
Study(sd) ==
    [path    |-> sd.name,
     subject |-> subject_pattern(sd.name)[1].subject,
     date    |-> subject_pattern(sd.name)[1].date,
     series  |-> [j \in DOMAIN sd.series |-> series_pattern(sd.series[j])[1].name]]

\* self.all_studies after __init__: <<>> for None, else <<the list>>.
ConverterStudies(t) ==
    IF study_dirs(t) = <<>> THEN <<>>
    ELSE <<[i \in DOMAIN study_dirs(t) |-> Study(study_dirs(t)[i])]>>

\* What BidsDict.__init__ prints.
BidsDictPrinted(run) ==
    IF run THEN {<<"run-{series number}", 0, <<>>, <<>>, {}>>}
    ELSE {<<"unknown behavior for duplicate series descriptions", 0, <<>>, <<>>, {}>>}

\* A slip: a description found twice is not reported.
DuplicateLines_over_two(studies) ==
    LET all_series == UNION {Range(studies[i].series) : i \in DOMAIN studies} IN
    {<<"found in", Count(studies[i].series, series), series, studies[i].path, {}>> :
        <<series, i>> \in {p \in all_series \X DOMAIN studies :
                              Count(studies[p[2]].series, p[1]) > 2}}

\* The duplicate lines: f'{count} {series} found in {study.path.name}'
DuplicateLines(studies) ==
    LET all_series == UNION {Range(studies[i].series) : i \in DOMAIN studies} IN
    {<<"found in", Count(studies[i].series, series), series, studies[i].path, {}>> :
        <<series, i>> \in {p \in all_series \X DOMAIN studies :
                              Count(studies[p[2]].series, p[1]) > 1}}

\* What Converter.__init__ prints.
ConverterPrinted(t) ==
    IF ConverterStudies(t) = <<>>
    THEN {<<"No study directories found, dicoms not sorted", 0, <<>>, <<>>, {}>>}
    ELSE LET studies == ConverterStudies(t)[1] IN
         {<<"studies for subjects found", Len(studies), <<>>, <<>>, {}>>,
          <<"all_series", 0, <<>>, <<>>,
            UNION {Range(studies[i].series) : i \in DOMAIN studies}>>}
             \cup DuplicateLines(studies)

\* The directory of the tree a study's path names.
DirOf(t, path) == t[CHOOSE i \in DOMAIN t : t[i].name = path]

\* The loop of generate_commands; out holds the commands printed so far.
RECURSIVE CommandsLoop(_, _, _, _)
CommandsLoop(acc, out, t, studies) ==
    IF studies = <<>> THEN [acc EXCEPT !.command = out]
    ELSE LET r == generate_cs_command(acc, DirOf(t, Head(studies).path)) IN
         IF r.err # "none" THEN [r EXCEPT !.command = out]
         ELSE CommandsLoop(r, out \o r.command, t, Tail(studies))

(***************************************************************************)
(* The inputs                                                              *)
(***************************************************************************)
bold       == <<"b", "o", "l", "d">>
bold_sbref == <<"b", "o", "l", "d", "_", "s", "b", "r", "e", "f">>

SeqsUpTo(S, n) == UNION {[1..k -> S] : k \in 0..n}

\* The series number of the j-th series of a study.
RunText(j) ==
    IF j = 1 THEN <<"3">> ELSE IF j = 2 THEN <<"1", "2">> ELSE <<"0", "0">> \o str(j + 4)

SeriesDir(j, description) == Series_ \o RunText(j) \o <<"_">> \o description

SeriesDescriptions == {bold, bold_sbref}

SeriesLists ==
    {[j \in DOMAIN ds |-> SeriesDir(j, ds[j])] : ds \in SeqsUpTo(SeriesDescriptions, MaxSeries)}

\* The subject code of the i-th study directory: the first two are one subject.
SubjectText(i) ==
    IF i = 1 THEN <<"A", "1">> ELSE IF i = 2 THEN <<"A", "-", "1">> ELSE <<"B">> \o str(i)

StudyName(i) == SubjectText(i) \o <<"_", "2", "0", "2", "0", "0", "1", "0">> \o str(i)

\* The header fields of a dicom file of a study directory.
Dicom == [PatientSex |-> "F", PatientAge |-> <<"0", "2", "5", "Y">>]

\* The root os.walk starts from: no study directory.
Root == [name |-> <<"d", "c", "m">>, series |-> <<>>, dicom |-> <<>>]

RECURSIVE TotalLen(_)
TotalLen(ss) == IF ss = <<>> THEN 0 ELSE Len(Head(ss)) + TotalLen(Tail(ss))

Trees ==
    {<<Root>> \o [i \in DOMAIN ss |-> [name |-> StudyName(i), series |-> ss[i],
                                       dicom |-> <<Dicom>>]] :
        ss \in {x \in SeqsUpTo(SeriesLists, MaxStudies) : TotalLen(x) <= MaxSeries}}

RuleKeys == {bold, bold_sbref}

RulePairs == {<<"func", "bold">>, <<"anat", "bold">>}

RuleChains == {None, <<<<"task", rest>>>>, <<<<"ses", <<"0", "1">>>>>>}

NoArgs == [datatype |-> "", suffix |-> "", chain |-> None, nonstandard |-> FALSE]

(***************************************************************************)
(* Spec: a Converter over a dicom tree, its BidsDict and command generation *)
(***************************************************************************)
Init ==
    /\ autorun \in BOOLEAN
    /\ autosession \in BOOLEAN
    /\ tree \in Trees
    /\ chain_dict = <<>>
    /\ all_studies = ConverterStudies(tree)
    /\ printed = BidsDictPrinted(autorun) \cup ConverterPrinted(tree)
    /\ commands = <<>>
    /\ created = {}
    /\ err = "none"
    /\ pc = "declare"
    /\ part_file = <<>>
    /\ json_writes = 0
    /\ args = NoArgs
    /\ ec = <<>>
    /\ format_string = <<>>
    /\ filename = <<>>

\* bids_dict.add(series_description, datatype, suffix, chain, nonstandard)
Add(series_description, datatype, suffix, chain, nonstandard) ==
    LET r == AddResult(chain_dict, series_description, datatype, suffix, chain,
                       nonstandard, autorun) IN
    /\ pc = "declare"
    /\ chain_dict' = r.chain_dict
    /\ err' = r.err
    /\ UNCHANGED <<autorun, autosession, tree, all_studies, printed, commands, created,
                   pc, part_file, json_writes, args, ec, format_string, filename>>

\* The state generate_cs_command works on.
Acc == [chain_dict |-> chain_dict, command |-> <<>>, printed |-> printed,
        created |-> created, err |-> "none"]

\* converter.generate_commands()
GenerateCommands ==
    LET r == IF all_studies = <<>> THEN [Acc EXCEPT !.err = "TypeError"]
             ELSE CommandsLoop(Acc, <<>>, tree, all_studies[1]) IN
    /\ chain_dict' = r.chain_dict
    /\ commands' = r.command
    /\ printed' = r.printed
    /\ created' = r.created
    /\ err' = r.err
    /\ pc' = "generate"
    /\ UNCHANGED <<autorun, autosession, tree, all_studies, part_file, json_writes,
                   args, ec, format_string, filename>>

Next ==
    \/ \E k \in RuleKeys, p \in RulePairs, c \in RuleChains :
           Add(k, p[1], p[2], c, FALSE)
    \/ GenerateCommands

Spec == Init /\ [][Next]_vars

(***************************************************************************)
(* SpecGrammar: BidsDict.add called once on a fresh BidsDict, for every    *)
(* pair of a datatype and a suffix                                         *)
(***************************************************************************)
AllDatatypes == Range(datatypes) \cup DOMAIN suffixes \cup {"pet"}

AllSuffixes == UNION {Range(suffixes[dt]) : dt \in DOMAIN suffixes} \cup {"UNIT1"}

GrammarArgs ==
    [datatype : AllDatatypes, suffix : AllSuffixes, chain : {None, <<>>},
     nonstandard : BOOLEAN]

InitGrammar ==
    /\ autorun \in BOOLEAN
    /\ autosession \in BOOLEAN
    /\ args \in GrammarArgs
    /\ tree = <<Root>>
    /\ chain_dict = <<>>
    /\ all_studies = <<>>
    /\ printed = BidsDictPrinted(autorun)
    /\ commands = <<>>
    /\ created = {}
    /\ err = "none"
    /\ pc = "declare"
    /\ part_file = <<>>
    /\ json_writes = 0
    /\ ec = <<>>
    /\ format_string = <<>>
    /\ filename = <<>>

\* bids_dict.add(bold, **args)
AddArgs ==
    LET r == AddResult(chain_dict, bold, args.datatype, args.suffix, args.chain,
                       args.nonstandard, autorun) IN
    /\ pc = "declare"
    /\ chain_dict' = r.chain_dict
    /\ err' = r.err
    /\ pc' = "declared"
    /\ UNCHANGED <<autorun, autosession, tree, all_studies, printed, commands, created,
                   part_file, json_writes, args, ec, format_string, filename>>

NextGrammar == AddArgs

SpecGrammar == InitGrammar /\ [][NextGrammar]_vars

(***************************************************************************)
(* SpecFormat: an EntityChain built from a chain, its format string, and   *)
(* the file name of subject A1                                             *)
(***************************************************************************)
FormatKeys == Range(entities) \cup {"foo"}

EntityValue(key) ==
    CASE key = "task" -> rest
      [] key = "run"  -> <<"0", "1">>
      [] key = "ses"  -> <<"0", "2">>
      [] OTHER        -> <<"x">>

FormatChains ==
    {None} \cup
    {[i \in DOMAIN ks |-> <<ks[i], EntityValue(ks[i])>>] :
        ks \in {x \in SeqsUpTo(FormatKeys, MaxChainLen) :
                   \A i, j \in DOMAIN x : i # j => x[i] # x[j]}}

InitFormat ==
    /\ args \in [datatype : {"func"}, suffix : {"bold"}, chain : FormatChains,
                 nonstandard : {FALSE}]
    /\ autorun = FALSE
    /\ autosession = FALSE
    /\ tree = <<Root>>
    /\ chain_dict = <<>>
    /\ all_studies = <<>>
    /\ printed = {}
    /\ commands = <<>>
    /\ created = {}
    /\ err = "none"
    /\ pc = "declare"
    /\ part_file = <<>>
    /\ json_writes = 0
    /\ ec = <<>>
    /\ format_string = <<>>
    /\ filename = <<>>

\* ec = EntityChain(**args)
NewEntityChain ==
    /\ ec = <<>>
    /\ err' = EntityChainError(args.datatype, args.suffix, args.nonstandard)
    /\ ec' = IF err' = "none" THEN <<EntityChain(args.datatype, args.suffix, args.chain)>>
             ELSE <<>>
    /\ UNCHANGED <<autorun, autosession, chain_dict, tree, all_studies, printed, commands,
                   created, pc, part_file, json_writes, args, format_string, filename>>

\* format_string = ec.get_format_string()
GetFormatString ==
    /\ ec # <<>>
    /\ format_string = <<>>
    /\ format_string' = <<get_format_string(ec[1])>>
    /\ UNCHANGED <<autorun, autosession, chain_dict, tree, all_studies, printed, commands,
                   created, err, pc, part_file, json_writes, args, ec, filename>>

\* filename = format_string.format('A1')
FormatName ==
    /\ format_string # <<>>
    /\ filename = <<>>
    /\ err' = FormatError(format_string[1])
    /\ filename' = IF err' = "none" THEN <<Format(format_string[1], A1)>> ELSE <<>>
    /\ UNCHANGED <<autorun, autosession, chain_dict, tree, all_studies, printed, commands,
                   created, pc, part_file, json_writes, args, ec, format_string>>

NextFormat == NewEntityChain \/ GetFormatString \/ FormatName

SpecFormat == InitFormat /\ [][NextFormat]_vars

(***************************************************************************)
(* The participant registry, convert and write_slurm_script                *)
(***************************************************************************)
\* The characters of the directory names, in the order of their code points.
AsciiOrder ==
    <<"-", "0", "1", "2", "3", "4", "5", "6", "7", "8", "9",
      "A", "B", "C", "D", "E", "F", "G", "H", "I", "J", "K", "L", "M",
      "N", "O", "P", "Q", "R", "S", "T", "U", "V", "W", "X", "Y", "Z", "_",
      "a", "b", "c", "d", "e", "f", "g", "h", "i", "j", "k", "l", "m",
      "n", "o", "p", "q", "r", "s", "t", "u", "v", "w", "x", "y", "z">>

Ord(c) == CHOOSE i \in DOMAIN AsciiOrder : AsciiOrder[i] = c

\* a < b for two str
RECURSIVE TextLess(_, _)
TextLess(a, b) ==
    IF b = <<>> THEN FALSE
    ELSE IF a = <<>> THEN TRUE
    ELSE IF Head(a) # Head(b) THEN Ord(Head(a)) < Ord(Head(b))
    ELSE TextLess(Tail(a), Tail(b))

\* sorted(names)[0]
FirstSorted(names) ==
    CHOOSE x \in Range(names) : \A y \in Range(names) : x = y \/ TextLess(x, y)

\* The path of dataset_description.json under bidsdir.
description_file == <<<<"dataset_description.json">>>>

\* A slip: the subject is appended without looking for its row.
append_participant_noskip(reg, d) ==
    LET made     == reg.created \cup {<<>>}
        id       == <<"sub-">> \o get_subject_name(d.name)
        exists   == reg.part_file # <<>>
        opened   == IF exists THEN reg.part_file ELSE <<<<>>>>
        writes   == IF exists THEN reg.json_writes ELSE reg.json_writes + 1
        ds       == d.dicom[1]
    IN  IF d.dicom = <<>>
        THEN [part_file |-> opened, json_writes |-> writes, created |-> made,
              err |-> "StopIteration"]
        ELSE [part_file   |-> <<Append(opened[1],
                                       <<id,
                                         int(SubSeq(ds.PatientAge, 1, Len(ds.PatientAge) - 1)),
                                         ds.PatientSex>>)>>,
              json_writes |-> writes,
              created     |-> made,
              err         |-> "none"]

\* append_participant(subjectdir, bidsdir) for the directory d of the tree; reg holds
\* the registry file, the count of schema writes, the paths created and the exception.
\* A row is <<participant_id, age, sex>>.
append_participant(reg, d) ==
    LET made     == reg.created \cup {<<>>}
        id       == <<"sub-">> \o get_subject_name(d.name)
        exists   == reg.part_file # <<>>
        subjects == IF exists THEN {row[1] : row \in Range(reg.part_file[1])} ELSE {}
        opened   == IF exists THEN reg.part_file ELSE <<<<>>>>
        writes   == IF exists THEN reg.json_writes ELSE reg.json_writes + 1
        ds       == d.dicom[1]
    IN  IF exists /\ id \in subjects
        THEN [reg EXCEPT !.created = made, !.err = "none"]
        ELSE IF d.dicom = <<>>
        THEN [part_file |-> opened, json_writes |-> writes, created |-> made,
              err |-> "StopIteration"]
        ELSE [part_file   |-> <<Append(opened[1],
                                       <<id,
                                         int(SubSeq(ds.PatientAge, 1, Len(ds.PatientAge) - 1)),
                                         ds.PatientSex>>)>>,
              json_writes |-> writes,
              created     |-> made,
              err         |-> "none"]

\* The names of the directories convert and write_slurm_script take as subject directories.
subjectdirs(t) == [i \in DOMAIN study_dirs(t) |-> study_dirs(t)[i].name]

\* What convert and write_slurm_script create before their loops.
Prepared(reg) == [reg EXCEPT !.created = reg.created \cup {<<>>, description_file}]

\* convert(dicomdir, bidsdir, bids_dict): os.walk hands generate_cs_command a str, so
\* its first path operation raises, whichever type bidsdir has.
convert(reg, t, bids_is_path) ==
    IF subjectdirs(t) = <<>> THEN [reg EXCEPT !.err = "ValueError"]
    ELSE LET r == append_participant(Prepared(reg), DirOf(t, FirstSorted(subjectdirs(t)))) IN
         IF r.err # "none" THEN r
         ELSE [r EXCEPT !.err = IF bids_is_path THEN "AttributeError" ELSE "TypeError"]

\* write_slurm_script(dicomdir, bidsdir, bids_dict, slurmfile): the file is opened for
\* reading, so the first write raises.
write_slurm_script(reg, t, slurm_exists) ==
    IF subjectdirs(t) = <<>> THEN [reg EXCEPT !.err = "ValueError"]
    ELSE [Prepared(reg) EXCEPT
             !.err = IF slurm_exists THEN "UnsupportedOperation" ELSE "FileNotFoundError"]

RegistryTrees ==
    {<<Root>> \o [i \in DOMAIN ds |-> [name |-> StudyName(i),
                                       series |-> <<SeriesDir(1, bold)>>,
                                       dicom |-> ds[i]]] :
        ds \in SeqsUpTo({<<>>, <<Dicom>>}, MaxSubjectDirs)}

InitRegistry ==
    /\ tree \in RegistryTrees
    /\ autorun = TRUE
    /\ autosession = FALSE
    /\ chain_dict = <<>>
    /\ all_studies = <<>>
    /\ printed = BidsDictPrinted(autorun)
    /\ commands = <<>>
    /\ created = {}
    /\ err = "none"
    /\ pc = "declare"
    /\ part_file = <<>>
    /\ json_writes = 0
    /\ args = NoArgs
    /\ ec = <<>>
    /\ format_string = <<>>
    /\ filename = <<>>

\* The state the registry operations work on.
Reg == [part_file |-> part_file, json_writes |-> json_writes, created |-> created,
        err |-> "none"]

Registered(r) ==
    /\ part_file' = r.part_file
    /\ json_writes' = r.json_writes
    /\ created' = r.created
    /\ err' = r.err
    /\ UNCHANGED <<autorun, autosession, chain_dict, tree, all_studies, printed, commands,
                   pc, args, ec, format_string, filename>>

AppendParticipant(d) == Registered(append_participant(Reg, d))

Convert(bids_is_path) == Registered(convert(Reg, tree, bids_is_path))

WriteSlurmScript(slurm_exists) == Registered(write_slurm_script(Reg, tree, slurm_exists))

NextRegistry ==
    \/ \E d \in Range(tree) : AppendParticipant(d)
    \/ \E b \in BOOLEAN : Convert(b)
    \/ \E b \in BOOLEAN : WriteSlurmScript(b)

SpecRegistry == InitRegistry /\ [][NextRegistry]_vars

(***************************************************************************)
(* The claims                                                              *)
(***************************************************************************)
\* The grammar table lists the suffix under the datatype.
InGrammarTable(datatype, suffix) ==
    /\ datatype \in DOMAIN suffixes
    /\ suffix \in Range(suffixes[datatype])

\* C1: with nonstandard=false a rule is constructed and registered exactly for the
\* pairs the suffixes table lists; for every other pair add raises ValueError and
\* registers nothing.
C1_GrammarDecidesConstruction ==
    (pc = "declared" /\ ~args.nonstandard) =>
        IF InGrammarTable(args.datatype, args.suffix)
        THEN In(bold, chain_dict)
        ELSE err = "ValueError" /\ chain_dict = <<>>

\* C2: adding a rule with a pair the code accepts and the chain left at its default
\* returns normally, whatever autorun and autosession are.
C2_OmittedChainAddSucceeds ==
    (/\ pc = "declared"
     /\ args.chain = None
     /\ EntityChainError(args.datatype, args.suffix, args.nonstandard) = "none")
        => err = "none"

\* The place of a key in the entities enumeration.
EntityIndex(key) == CHOOSE i \in DOMAIN entities : entities[i] = key

sub_A1_task_rest_run_01_bold ==
    <<"sub-", "A", "1", "_", "task", "-", "r", "e", "s", "t", "_",
      "run", "-", "0", "1", "_", "bold">>

TaskThenRun == <<<<"task", rest>>, <<"run", <<"0", "1">>>>>>

RunThenTask == <<<<"run", <<"0", "1">>>>, <<"task", rest>>>>

\* C3: the format string lists the chain's keys of the entities enumeration, each
\* once, in the order of the enumeration, whatever the insertion order; the chain
\* task=rest, run=01 with suffix bold and subject A1 gives sub-A1_task-rest_run-01_bold.
C3_CanonicalKeyOrder ==
    /\ (format_string # <<>> /\ args.chain # None) =>
           LET listed == SelectSeq(format_string[1], LAMBDA x : x \in Range(entities)) IN
           /\ Range(listed) = Keys(args.chain) \cap Range(entities)
           /\ \A i, j \in DOMAIN listed :
                  i < j => EntityIndex(listed[i]) < EntityIndex(listed[j])
    /\ (filename # <<>> /\ args.chain \in {TaskThenRun, RunThenTask}) =>
           filename[1] = sub_A1_task_rest_run_01_bold

\* C3 witness: the file name of the chain inserted as run, then task.
C3_Witness ==
    /\ args.chain = RunThenTask
    /\ filename = <<sub_A1_task_rest_run_01_bold>>

\* How often the segment occurs in the text.
Occurrences(text, segment) ==
    Cardinality({i \in 1..(Len(text) - Len(segment) + 1) :
                    SubSeq(text, i, i + Len(segment) - 1) = segment})

\* The first place of a symbol in the text, 0 when it is not there.
PlaceOf(text, symbol) ==
    IF symbol \in Range(text)
    THEN CHOOSE i \in DOMAIN text : text[i] = symbol /\ \A j \in 1..(i - 1) : text[j] # symbol
    ELSE 0

\* C4: every key of the chain is one <key>-<value>_ segment of the format string,
\* the keys outside the entities enumeration after the keys inside it.
C4_EveryKeyListedOnce ==
    (format_string # <<>> /\ args.chain # None) =>
        /\ \A i \in DOMAIN args.chain :
               Occurrences(format_string[1],
                           <<args.chain[i][1], "-">> \o args.chain[i][2] \o <<"_">>) = 1
        /\ \A k \in Keys(args.chain) \ Range(entities), c \in Keys(args.chain) \cap Range(entities) :
               PlaceOf(format_string[1], c) < PlaceOf(format_string[1], k)

\* C5: command generation leaves the chain of every rule as it was before the call.
C5_RulesUnchangedByGeneration == [][GenerateCommands => chain_dict' = chain_dict]_vars

\* The description of the series a command converts.
DescriptionOf(command) == series_pattern(command.source[2])[1].name

IsPrefix(p, t) == Len(p) <= Len(t) /\ \A i \in DOMAIN p : t[i] = p[i]

\* The series directories of the studies, as <<study directory, series directory>>.
AllSeries ==
    {<<tree[i].name, tree[i].series[j]>> : <<i, j>> \in
        {p \in (DOMAIN tree) \X (1..MaxSeries) :
            /\ subject_pattern(tree[p[1]].name) # <<>>
            /\ p[2] \in DOMAIN tree[p[1]].series}}

\* The description a series directory's name ends with.
Described(source) ==
    LET at == CHOOSE i \in DOMAIN source[2] :
                  /\ source[2][i] = "_"
                  /\ i > Len(Series_)
                  /\ \A j \in (Len(Series_) + 1)..(i - 1) : source[2][j] # "_"
    IN  SubSeq(source[2], at + 1, Len(source[2]))

Duplicates ==
    {<<all_studies[1][i], d, Count(all_studies[1][i].series, d)>> : <<i, d>> \in
        {p \in (DOMAIN all_studies[1]) \X SeriesDescriptions :
            Count(all_studies[1][p[1]].series, p[2]) > 1}}

\* C7: a description a study holds more than once is reported with its count and
\* the study, and when generate_commands returns every series of that description
\* a rule key matches has its own command.
C7_DuplicatesAllConverted ==
    all_studies # <<>> =>
        \A dup \in Duplicates :
            /\ <<"found in", dup[3], dup[2], dup[1].path, {}>> \in printed
            /\ (/\ pc = "generate"
                /\ err = "none"
                /\ \E k \in Keys(chain_dict) : IsPrefix(k, dup[2]))
                   => Cardinality({i \in DOMAIN commands :
                                      /\ commands[i].source[1] = dup[1].path
                                      /\ Described(commands[i].source) = dup[2]}) = dup[3]

\* C7 witness: two commands for the two series of one description in one study.
C7_Witness ==
    /\ all_studies # <<>>
    /\ \E dup \in Duplicates :
           /\ <<"found in", 2, dup[2], dup[1].path, {}>> \in printed
           /\ Cardinality({i \in DOMAIN commands :
                              /\ commands[i].source[1] = dup[1].path
                              /\ Described(commands[i].source) = dup[2]}) = 2

\* The rows of the registry that hold the participant_id.
RowsOf(file, id) == {i \in DOMAIN file[1] : file[1][i][1] = id}

\* The participant_id of a directory: its name up to the date, letters and digits only.
ParticipantId(d) ==
    LET date == CHOOSE i \in DOMAIN d.name :
                    /\ d.name[i] = "_"
                    /\ \A j \in (i + 1)..Len(d.name) : d.name[j] # "_"
    IN  <<"sub-">> \o SelectSeq(SubSeq(d.name, 1, date - 1), IsAlnum)

\* C8: no participant_id fills two rows; an append that returns leaves the
\* subject's participant_id in exactly one row; appending a subject whose row is
\* there changes neither the registry nor its schema file.
C8_AppendIdempotent ==
    /\ [](part_file # <<>> =>
             \A i, j \in DOMAIN part_file[1] :
                 part_file[1][i][1] = part_file[1][j][1] => i = j)
    /\ [][\A d \in Range(tree) \ {Root} :
              AppendParticipant(d) =>
                  /\ err' = "none" => Cardinality(RowsOf(part_file', ParticipantId(d))) = 1
                  /\ (part_file # <<>> /\ RowsOf(part_file, ParticipantId(d)) # {})
                         => part_file' = part_file /\ json_writes' = json_writes]_vars

\* C8 witness: the registry holds the row of a subject that has two directories.
C8_Witness ==
    /\ part_file # <<>>
    /\ \E i, j \in DOMAIN tree :
           /\ i < j
           /\ i > 1
           /\ ParticipantId(tree[i]) = ParticipantId(tree[j])
           /\ Cardinality(RowsOf(part_file, ParticipantId(tree[i]))) = 1
           /\ tree[j].dicom # <<>>

\* C9: with no study directory found, generate_commands returns normally and emits
\* no command.
C9_NoInputIsNotFatal ==
    (all_studies = <<>> /\ pc = "generate") => (err = "none" /\ commands = <<>>)

\* The rule a series of this description is converted under.
RuleOf(description) == Get(chain_dict, dict_match(chain_dict, description)[1])

\* C10: the output directory of a command is sub-<name>/ses-<value>/<datatype> when
\* the chain of its rule has a ses key, with the chain's value, and
\* sub-<name>/<datatype> when it has none.
C10_SessionSegment ==
    \A i \in DOMAIN commands :
        LET c    == commands[i]
            rule == RuleOf(DescriptionOf(c))
        IN  /\ c.output_dir[1] = ParticipantId([name |-> c.source[1]])
            /\ c.output_dir[Len(c.output_dir)] = <<rule.datatype>>
            /\ IF \E k \in DOMAIN rule.chain : rule.chain[k][1] = "ses"
               THEN /\ Len(c.output_dir) = 3
                    /\ \E k \in DOMAIN rule.chain :
                           /\ rule.chain[k][1] = "ses"
                           /\ c.output_dir[2] = <<"ses-">> \o rule.chain[k][2]
               ELSE Len(c.output_dir) = 2

\* C10 witness: one command into a session directory, one into none.
C10_Witness ==
    /\ \E i \in DOMAIN commands : Len(commands[i].output_dir) = 3
    /\ \E i \in DOMAIN commands : Len(commands[i].output_dir) = 2

\* The places in chain_dict of the rule keys the description starts with.
MatchingRules(description) ==
    {k \in DOMAIN chain_dict : IsPrefix(chain_dict[k][1], description)}

\* C11: no series directory has two commands; a series with a command is matched by
\* a rule key; it is converted under the rule declared first among the keys that
\* match it (the session directory, the datatype and the task of the command are
\* that rule's), and 'multiple matches' is printed when several keys match.
C11_FirstMatchOnly ==
    \A i \in DOMAIN commands :
        LET c        == commands[i]
            matching == MatchingRules(Described(c.source))
            first    == CHOOSE k \in matching : \A m \in matching : k <= m
            rule     == chain_dict[first][2]
        IN  /\ \A j \in DOMAIN commands : commands[j].source = c.source => i = j
            /\ matching # {}
            /\ Cardinality(matching) > 1 =>
                   <<"multiple matches", 0, Described(c.source), <<>>, {}>> \in printed
            /\ c.output_dir[Len(c.output_dir)] = <<rule.datatype>>
            /\ (Len(c.output_dir) = 3) <=> ("ses" \in Keys(rule.chain))
            /\ (Occurrences(c.format_string, <<"_", "task", "-">>) = 1)
                   <=> ("task" \in Keys(rule.chain))
            /\ (Occurrences(c.format_string, <<"_", "ses", "-">>) = 1)
                   <=> ("ses" \in Keys(rule.chain))

\* C11 witness: a series two keys match, converted under the first rule, whose
\* chain differs from the second rule's.
C11_Witness ==
    /\ Len(chain_dict) = 2
    /\ ("task" \in Keys(chain_dict[1][2].chain)) # ("task" \in Keys(chain_dict[2][2].chain))
    /\ \E i \in DOMAIN commands :
           /\ Cardinality(MatchingRules(Described(commands[i].source))) = 2
           /\ (Occurrences(commands[i].format_string, <<"_", "task", "-">>) = 1)
                  <=> ("task" \in Keys(chain_dict[1][2].chain))

====
